---- MODULE Spec2Model ----
(***************************************************************************)
(* Gold price alert page: the orchestration controller (Page component),   *)
(* its helpers, the browser's localStorage and the two remote services     *)
(* (scheduler, agent) it calls.                                            *)
(*                                                                         *)
(* Every asynchronous handler is a task: a record with its position (pc),  *)
(* the values its closure captured when it was called, and the response   *)
(* of the call it is awaiting (res).  A remote call takes two steps: the   *)
(* service answers (res is filled in), then the handler's continuation     *)
(* runs.  Tasks in flight form a bag, since two identical calls of the     *)
(* same handler can be in flight together.                                 *)
(***************************************************************************)
EXTENDS Integers, Sequences, FiniteSets, Bags, TLC

(***************************************************************************)
(* Bounds of the model.                                                    *)
(***************************************************************************)
\* operations the user triggers (refresh, toggle, check now, save, edit, reload)
MaxOps == 2

(***************************************************************************)
(* Program constants.                                                      *)
(***************************************************************************)
MANAGER_AGENT_ID == "6997285ac4e47cc7968fd581"
\* '69972860399dfadeac37b79a', the schedule shipped with the app: id 0
INITIAL_SCHEDULE_ID == 0
STORAGE_KEY == "gold_alert_settings"
SCHEDULE_ID_KEY == "gold_alert_schedule_id"

(***************************************************************************)
(* JavaScript values.                                                      *)
(***************************************************************************)
Undefined == [t |-> "undefined"]
Null == [t |-> "null"]
\* a string, as the sequence of its lexical tokens
Str(s) == [t |-> "string", s |-> s]
Num(n) == [t |-> "number", n |-> n]
Bool(b) == [t |-> "boolean", b |-> b]
\* an object, given by its fields
Obj(f) == [t |-> "object", f |-> f]

\* !x
Falsy(x) ==
    \/ x.t \in {"undefined", "null"}
    \/ x.t = "string" /\ x.s = <<>>
    \/ x.t = "number" /\ x.n = 0
    \/ x.t = "boolean" /\ ~x.b

(***************************************************************************)
(* JSON text.  A text is the sequence of its lexical tokens: punctuation,  *)
(* literals, white space and words of prose (which no JSON text holds).    *)
(***************************************************************************)
StringLiterals == {"\"summary\"", "\"ok\"", "\"\""}
NumberLiterals == {"42", "0"}
WhiteSpace == {" "}
Prose == {"Result:", "done"}
Tokens ==
    {"{", "}", "[", "]", ",", ":", "null", "true", "false"}
        \cup StringLiterals \cup NumberLiterals \cup WhiteSpace \cup Prose

\* the value a string literal denotes
StringValue(tok) ==
    CASE tok = "\"summary\"" -> Str(<<"summary">>)
      [] tok = "\"ok\"" -> Str(<<"ok">>)
      [] OTHER -> Str(<<>>)

\* the value a number literal denotes
NumberValue(tok) == IF tok = "42" THEN Num(42) ELSE Num(0)

\* the key a string literal denotes, as a field name
KeyOf(tok) ==
    CASE tok = "\"summary\"" -> "summary"
      [] tok = "\"ok\"" -> "ok"
      [] OTHER -> ""

Arr(a) == [t |-> "object", a |-> a]

TokAt(toks, i) == IF i \in 1..Len(toks) THEN toks[i] ELSE "<end>"

RECURSIVE SkipWs(_, _)
SkipWs(toks, i) ==
    IF TokAt(toks, i) \in WhiteSpace THEN SkipWs(toks, i + 1) ELSE i

ParseFail == [ok |-> FALSE, v |-> Undefined, next |-> 0]
ParseOk(v, next) == [ok |-> TRUE, v |-> v, next |-> next]

\* the grammar of JSON values, by recursive descent from token i
RECURSIVE ParseValue(_, _), ParseMembers(_, _, _), ParseElements(_, _, _)
ParseValue(toks, i) ==
    LET j == SkipWs(toks, i)
        c == TokAt(toks, j)
    IN  CASE c = "{" ->
               IF TokAt(toks, SkipWs(toks, j + 1)) = "}"
               THEN ParseOk(Obj(<<>>), SkipWs(toks, j + 1) + 1)
               ELSE ParseMembers(toks, j + 1, <<>>)
          [] c = "[" ->
               IF TokAt(toks, SkipWs(toks, j + 1)) = "]"
               THEN ParseOk(Arr(<<>>), SkipWs(toks, j + 1) + 1)
               ELSE ParseElements(toks, j + 1, <<>>)
          [] c \in StringLiterals -> ParseOk(StringValue(c), j + 1)
          [] c \in NumberLiterals -> ParseOk(NumberValue(c), j + 1)
          [] c = "null" -> ParseOk(Null, j + 1)
          [] c = "true" -> ParseOk(Bool(TRUE), j + 1)
          [] c = "false" -> ParseOk(Bool(FALSE), j + 1)
          [] OTHER -> ParseFail

ParseMembers(toks, i, acc) ==
    LET j == SkipWs(toks, i)
        k == SkipWs(toks, j + 1)
        r == ParseValue(toks, k + 1)
        m == SkipWs(toks, r.next)
        \* a repeated key keeps the later value
        f == [x \in (DOMAIN acc) \cup {KeyOf(TokAt(toks, j))} |->
                 IF x = KeyOf(TokAt(toks, j)) THEN r.v ELSE acc[x]]
    IN  IF TokAt(toks, j) \notin StringLiterals \/ TokAt(toks, k) # ":"
        THEN ParseFail
        ELSE IF ~r.ok THEN ParseFail
        ELSE IF TokAt(toks, m) = "," THEN ParseMembers(toks, m + 1, f)
        ELSE IF TokAt(toks, m) = "}" THEN ParseOk(Obj(f), m + 1)
        ELSE ParseFail

ParseElements(toks, i, acc) ==
    LET r == ParseValue(toks, i)
        m == SkipWs(toks, r.next)
    IN  IF ~r.ok THEN ParseFail
        ELSE IF TokAt(toks, m) = "," THEN ParseElements(toks, m + 1, Append(acc, r.v))
        ELSE IF TokAt(toks, m) = "]" THEN ParseOk(Arr(Append(acc, r.v)), m + 1)
        ELSE ParseFail

\* JSON.parse: ok is FALSE where JSON.parse throws a SyntaxError
JSONparse(toks) ==
    LET r == ParseValue(toks, 1)
    IN  IF r.ok /\ SkipWs(toks, r.next) = Len(toks) + 1
        THEN [ok |-> TRUE, v |-> r.v]
        ELSE [ok |-> FALSE, v |-> Undefined]

\* result.match(/\{[\s\S]*\}/): the span from the first "{" to the last "}"
\* after it (the quantifier is greedy); <<>> stands for no match
RegexMatch(toks) ==
    LET opens == {i \in 1..Len(toks) : toks[i] = "{"}
        first == CHOOSE i \in opens : \A j \in opens : i <= j
        closes == {i \in 1..Len(toks) : toks[i] = "}" /\ i > first}
        last == CHOOSE i \in closes : \A j \in closes : j <= i
    IN  IF opens = {} THEN <<>>
        ELSE IF closes = {} THEN <<>>
        ELSE SubSeq(toks, first, last)

\* a normalizer that copies an object instead of returning it
parseAgentResultCopy(result) ==
    IF Falsy(result) THEN Null
    ELSE IF result.t = "object" THEN
        IF "f" \in DOMAIN result THEN Obj(result.f) ELSE result
    ELSE Null

parseAgentResult(result) ==
    IF Falsy(result) THEN Null
    ELSE IF result.t = "object" THEN result
    ELSE IF result.t = "string" THEN
        IF JSONparse(result.s).ok THEN JSONparse(result.s).v
        ELSE IF RegexMatch(result.s) # <<>> THEN
            IF JSONparse(RegexMatch(result.s)).ok
            THEN JSONparse(RegexMatch(result.s)).v
            ELSE Null
        ELSE Null
    ELSE Null

(***************************************************************************)
(* Settings, cron expression and agent message.  A time or a cron          *)
(* expression is the sequence of its characters; a message is the sequence *)
(* of the pieces the template concatenates.                                *)
(***************************************************************************)
DEFAULT_SETTINGS ==
    [recipientEmails |-> <<>>, frequency |-> "daily",
     triggerTime |-> <<"0", "9", ":", "0", "0">>, timezone |-> "America/New_York",
     thresholdEnabled |-> FALSE, thresholdAbove |-> "2500",
     thresholdBelow |-> "2000", unit |-> "ounce"]

\* the settings the editor can produce in this model
EditedSettings ==
    {[DEFAULT_SETTINGS EXCEPT !.recipientEmails = <<<<"a", "@", "x">>, <<"b", "@", "y">>>>,
                              !.frequency = "weekly",
                              !.triggerTime = <<"0", "9", ":", "3", "0">>,
                              !.timezone = "Europe/London",
                              !.thresholdEnabled = TRUE,
                              !.thresholdBelow = ""]}

SettingsValues == {DEFAULT_SETTINGS} \cup EditedSettings

\* time.split(':')
RECURSIVE Split(_, _)
Split(s, sep) ==
    LET at == {i \in 1..Len(s) : s[i] = sep}
        first == CHOOSE i \in at : \A j \in at : i <= j
    IN  IF at = {} THEN <<s>>
        ELSE <<SubSeq(s, 1, first - 1)>> \o Split(SubSeq(s, first + 1, Len(s)), sep)

buildCron(frequency, time) ==
    LET parts == Split(time, ":")
        \* hour ?? '9', minute ?? '0': only a missing part is replaced
        h == IF Len(parts) >= 1 THEN parts[1] ELSE <<"9">>
        m == IF Len(parts) >= 2 THEN parts[2] ELSE <<"0">>
    IN  CASE frequency = "hourly" -> m \o <<" ", "*", " ", "*", " ", "*", " ", "*">>
          [] frequency = "daily" -> m \o <<" ">> \o h \o <<" ", "*", " ", "*", " ", "*">>
          [] frequency = "weekly" -> m \o <<" ">> \o h \o <<" ", "*", " ", "*", " ", "1">>
          [] OTHER -> m \o <<" ">> \o h \o <<" ", "*", " ", "*", " ", "*">>

\* parts.join(sep): the parts, each a sequence of pieces, concatenated
\* with sep between them
RECURSIVE Join(_, _)
Join(parts, sep) ==
    IF parts = <<>> THEN <<>>
    ELSE IF Len(parts) = 1 THEN parts[1]
    ELSE parts[1] \o <<sep>> \o Join(Tail(parts), sep)

NO_RECIPIENTS == "no recipients configured"
NO_THRESHOLD == "No threshold configured"

emailsReversed(st) ==
    IF Len(st.recipientEmails) > 0
    THEN Join([i \in 1..Len(st.recipientEmails) |->
                  st.recipientEmails[Len(st.recipientEmails) + 1 - i]], ", ")
    ELSE <<NO_RECIPIENTS>>

\* const emails = ...
emails(st) ==
    IF Len(st.recipientEmails) > 0
    THEN Join(st.recipientEmails, ", ")
    ELSE <<NO_RECIPIENTS>>

unitLabel(st) == IF st.unit = "gram" THEN "g" ELSE "oz"

thresholdLineBoth(st) ==
    <<"Alert when price goes ", "above $", st.thresholdAbove, "/", unitLabel(st),
      " or ", "below $", st.thresholdBelow, "/", unitLabel(st)>>

\* let thresholdLine = ...; an empty string is falsy
thresholdLine(st) ==
    LET above == IF st.thresholdAbove # ""
                 THEN <<<<"above $", st.thresholdAbove, "/", unitLabel(st)>>>>
                 ELSE <<>>
        below == IF st.thresholdBelow # ""
                 THEN <<<<"below $", st.thresholdBelow, "/", unitLabel(st)>>>>
                 ELSE <<>>
        parts == above \o below
    IN  IF st.thresholdEnabled /\ Len(parts) > 0
        THEN <<"Alert when price goes ">> \o Join(parts, " or ")
        ELSE <<NO_THRESHOLD>>

composeAgentMessage(st) ==
    <<"Fetch current gold prices and send an alert email.\nRecipients: ">>
        \o emails(st) \o <<"\nThreshold: ">> \o thresholdLine(st)
        \o <<"\nUnit preference: ", st.unit>>

(***************************************************************************)
(* State.                                                                  *)
(***************************************************************************)
VARIABLES
    \* Page state (useState)
    settings, schedule, scheduleLoading, logs, logsLoading, lastResult,
    checkNowLoading, saving, notification, scheduleId, sessionId, activeAgentId,
    \* agentActivity.isProcessing, written through setProcessing
    isProcessing,
    \* the pending timeouts of the notification effect: for each, the seconds
    \* left until it fires
    timers,
    \* the seconds since the notification on display was set
    shown,
    \* FALSE until the mount effects have run
    mounted,
    \* the scheduleId the fetch effect last ran for (its dependencies)
    effectId,
    \* the browser's key-value store
    localStorage,
    \* the handlers in flight
    tasks,
    \* the scheduler service: is_active of every schedule that exists, and
    \* the next identifier it allocates
    scheduler, nextId,
    \* the number of operations the user has triggered
    ops,
    \* one call of fetchWrapper: where it stands, its arguments, what fetch
    \* gave, the texts confirm has shown, whether it reloaded the page, and
    \* what it returned
    fetchState, fetchArgs, response, prompts, reloaded, returned,
    \* window.location.href
    href,
    \* a helper function under test: its name, its argument and its result
    helper, input, output,
    \* SettingsTab state (useState): the text of the email field
    emailInput

pageVars ==
    <<settings, schedule, scheduleLoading, logs, logsLoading, lastResult,
      checkNowLoading, saving, notification, scheduleId, sessionId,
      activeAgentId, isProcessing, mounted, effectId, timers, shown>>
serviceVars == <<scheduler, nextId>>
gatewayVars == <<fetchState, fetchArgs, response, prompts, reloaded, returned, href>>
helperVars == <<helper, input, output>>
editorVars == <<emailInput>>
unitVars == <<gatewayVars, helperVars, editorVars>>
vars == <<pageVars, localStorage, tasks, serviceVars, ops, unitVars>>

\* localStorage.getItem of a key never set
NoItem == [t |-> "null"]
\* JSON.stringify of a settings object, and JSON.parse of a stored text
JSONstringify(st) == [t |-> "json", text |-> st]

\* the answer a task is awaiting, and the answers a call can give
Pending == [k |-> "pending"]
Throw == [k |-> "throw"]
Value(v) == [k |-> "value", v |-> v]

Add(t) == tasks (+) SetToBag({t})
Remove(t) == tasks (-) SetToBag({t})
Replace(t, u) == (tasks (-) SetToBag({t})) (+) SetToBag({u})
InFlight == BagToSet(tasks)
Count(kind) == BagCardinality([t \in {u \in InFlight : u.kind = kind} |-> tasks[t]])

\* no answer is waiting for its continuation: a continuation runs as soon as
\* its call has returned, before any other event is handled
Quiet == \A t \in InFlight : t.res = Pending

Success(message) == [type |-> "success", message |-> message]
Error(message) == [type |-> "error", message |-> message]

(***************************************************************************)
(* The notification effect: useEffect(..., [notification]).  Time is        *)
(* counted in seconds.                                                     *)
(***************************************************************************)
\* setTimeout(..., 5000)
NOTIFICATION_TIMEOUT == 5

\* the timeout set last: the one with the most time left
LastTimer(ts) == CHOOSE k \in ts : \A j \in ts : j <= k

\* a cleanup that forgets to clear its timeout
cleanupOmitted(ts) == ts

\* return () => clearTimeout(timer): the cleanup of the previous run of the
\* effect clears the timeout that run had set
cleanup(ts) == IF ts = {} THEN {} ELSE ts \ {LastTimer(ts)}

\* the effect after notification became n: the cleanup of the previous run,
\* then, if (notification), a new timeout
notificationEffect(ts, n) ==
    IF n # Null THEN cleanup(ts) \cup {NOTIFICATION_TIMEOUT} ELSE cleanup(ts)

\* setNotification(n), and the effect that follows the render
setNotification(n) ==
    /\ notification' = n
    /\ timers' = notificationEffect(timers, n)
    /\ shown' = 0

(***************************************************************************)
(* Local persistence helpers.                                              *)
(***************************************************************************)
loadSettings ==
    LET raw == localStorage[STORAGE_KEY]
    IN  IF raw = NoItem THEN DEFAULT_SETTINGS
        ELSE IF raw.t = "json"
        THEN [f \in DOMAIN DEFAULT_SETTINGS |->
                 IF f \in DOMAIN raw.text THEN raw.text[f] ELSE DEFAULT_SETTINGS[f]]
        ELSE DEFAULT_SETTINGS

\* a save that leaves the stored settings alone
saveSettingsSkipped(st) == localStorage

\* a save that also removes the stored schedule identifier
saveSettingsOnly(st) ==
    [k \in DOMAIN localStorage |-> IF k = STORAGE_KEY THEN JSONstringify(st) ELSE NoItem]

saveSettings(st) == [localStorage EXCEPT ![STORAGE_KEY] = JSONstringify(st)]

loadScheduleId ==
    IF localStorage[SCHEDULE_ID_KEY] = NoItem THEN INITIAL_SCHEDULE_ID
    ELSE localStorage[SCHEDULE_ID_KEY].id

\* a save that adopts the new identifier in memory only
saveScheduleIdForgotten(store, id) == store

saveScheduleId(store, id) == [store EXCEPT ![SCHEDULE_ID_KEY] = [t |-> "id", id |-> id]]

(***************************************************************************)
(* Initial state: the first render of a fresh installation.                *)
(***************************************************************************)
\* the page showing the schedule sch, with nothing in flight
PageShowing(sch, isMounted) ==
    /\ settings = DEFAULT_SETTINGS
    /\ schedule = sch
    /\ scheduleLoading = FALSE
    /\ logs = <<>>
    /\ logsLoading = FALSE
    /\ lastResult = Null
    /\ checkNowLoading = FALSE
    /\ saving = FALSE
    /\ notification = Null
    /\ timers = {}
    /\ shown = 0
    /\ scheduleId = INITIAL_SCHEDULE_ID
    /\ sessionId = Null
    /\ activeAgentId = Null
    /\ isProcessing = FALSE
    /\ mounted = isMounted
    /\ effectId = INITIAL_SCHEDULE_ID
    /\ localStorage = [k \in {STORAGE_KEY, SCHEDULE_ID_KEY} |-> NoItem]
    /\ tasks = EmptyBag
    /\ scheduler = [id \in {INITIAL_SCHEDULE_ID} |-> TRUE]
    /\ nextId = 1
    /\ ops = 0

PageInit == PageShowing(Null, FALSE)

\* no call of fetchWrapper has been made
GatewayInit ==
    /\ fetchState = "idle"
    /\ fetchArgs = Null
    /\ response = Null
    /\ prompts = <<>>
    /\ reloaded = FALSE
    /\ returned = Pending
    /\ href = "/"

\* no helper function is under test
HelperInit ==
    /\ helper = "none"
    /\ input = Null
    /\ output = Null

\* useState('')
EditorInit == emailInput = <<>>

Init == PageInit /\ GatewayInit /\ HelperInit /\ EditorInit

(***************************************************************************)
(* Schedule and log fetching.                                              *)
(***************************************************************************)
FetchScheduleTask(id) == [kind |-> "fetchSchedule", pc |-> "get", sid |-> id, res |-> Pending]
\* getScheduleLogs(scheduleId, { limit: 20 })
LOGS_LIMIT == 20

\* a log fetch that keeps to the identifier the page started with
FetchLogsTaskInitial(id) ==
    [kind |-> "fetchLogs", pc |-> "logs", sid |-> INITIAL_SCHEDULE_ID,
     limit |-> LOGS_LIMIT, res |-> Pending]

FetchLogsTask(id) ==
    [kind |-> "fetchLogs", pc |-> "logs", sid |-> id, limit |-> LOGS_LIMIT,
     res |-> Pending]

\* res.success && res.schedule, of an awaited answer that did not throw
HasSchedule(res) == res.v.success /\ res.v.schedule # Null

\* evaluating res.success throws: the call threw, or resolved to undefined
Throws(res) == res = Throw \/ res.v = Undefined

\* the two effects of the first commit: load the stored values, then
\* fetchScheduleData() and fetchLogs() with the scheduleId of the first render
Mount ==
    /\ Quiet
    /\ ~mounted
    /\ mounted' = TRUE
    /\ settings' = loadSettings
    /\ scheduleId' = loadScheduleId
    /\ scheduleLoading' = TRUE
    /\ logsLoading' = TRUE
    /\ effectId' = scheduleId
    /\ tasks' = tasks (+) SetToBag({FetchScheduleTask(scheduleId)})
                      (+) SetToBag({FetchLogsTask(scheduleId)})
    /\ UNCHANGED <<schedule, logs, lastResult, checkNowLoading, saving, notification, timers, shown,
                   sessionId, activeAgentId, isProcessing, localStorage, serviceVars, ops>>
    /\ UNCHANGED unitVars

\* useEffect(..., [fetchScheduleData, fetchLogs]): runs again when scheduleId changed
FetchEffect ==
    /\ Quiet
    /\ mounted
    /\ effectId # scheduleId
    /\ effectId' = scheduleId
    /\ scheduleLoading' = TRUE
    /\ logsLoading' = TRUE
    /\ tasks' = tasks (+) SetToBag({FetchScheduleTask(scheduleId)})
                      (+) SetToBag({FetchLogsTask(scheduleId)})
    /\ UNCHANGED <<settings, schedule, logs, lastResult, checkNowLoading, saving,
                   notification, timers, shown, scheduleId, sessionId, activeAgentId, isProcessing,
                   mounted, localStorage, serviceVars, ops>>
    /\ UNCHANGED unitVars

\* the same without the try/catch: an exception ends the handler before
\* setScheduleLoading(false)
fetchScheduleDataUncaught(t) ==
    /\ t.kind = "fetchSchedule" /\ t.res # Pending
    /\ schedule' = IF ~Throws(t.res) /\ HasSchedule(t.res) THEN t.res.v.schedule
                   ELSE schedule
    /\ scheduleLoading' = IF Throws(t.res) THEN scheduleLoading ELSE FALSE
    /\ tasks' = Remove(t)
    /\ UNCHANGED <<settings, logs, logsLoading, lastResult, checkNowLoading, saving,
                   notification, timers, shown, scheduleId, sessionId, activeAgentId, isProcessing,
                   mounted, effectId, localStorage, serviceVars, ops>>
    /\ UNCHANGED unitVars

\* the same, keeping a schedule that is already displayed
fetchScheduleDataKeeping(t) ==
    /\ t.kind = "fetchSchedule" /\ t.res # Pending
    /\ schedule' = IF ~Throws(t.res) /\ HasSchedule(t.res) /\ schedule = Null
                   THEN t.res.v.schedule
                   ELSE schedule
    /\ scheduleLoading' = FALSE
    /\ tasks' = Remove(t)
    /\ UNCHANGED <<settings, logs, logsLoading, lastResult, checkNowLoading, saving,
                   notification, timers, shown, scheduleId, sessionId, activeAgentId,
                   isProcessing, mounted, effectId, localStorage, serviceVars, ops>>
    /\ UNCHANGED unitVars

\* fetchScheduleData, after await getSchedule(scheduleId)
fetchScheduleData(t) ==
    /\ t.kind = "fetchSchedule" /\ t.res # Pending
    /\ schedule' = IF ~Throws(t.res) /\ HasSchedule(t.res) THEN t.res.v.schedule
                   ELSE schedule
    /\ scheduleLoading' = FALSE
    /\ tasks' = Remove(t)
    /\ UNCHANGED <<settings, logs, logsLoading, lastResult, checkNowLoading, saving,
                   notification, timers, shown, scheduleId, sessionId, activeAgentId, isProcessing,
                   mounted, effectId, localStorage, serviceVars, ops>>
    /\ UNCHANGED unitVars

\* res.success && Array.isArray(res.executions)
IsArray(x) == x.t = "object" /\ "a" \in DOMAIN x
HasExecutions(res) == res.v.success /\ IsArray(res.v.executions)

\* fetchLogs, after await getScheduleLogs(scheduleId, {limit: 20})
fetchLogs(t) ==
    /\ t.kind = "fetchLogs" /\ t.res # Pending
    /\ logs' = IF ~Throws(t.res) /\ HasExecutions(t.res) THEN t.res.v.executions.a
               ELSE logs
    /\ logsLoading' = FALSE
    /\ tasks' = Remove(t)
    /\ UNCHANGED <<settings, schedule, scheduleLoading, lastResult, checkNowLoading,
                   saving, notification, timers, shown, scheduleId, sessionId, activeAgentId,
                   isProcessing, mounted, effectId, localStorage, serviceVars, ops>>
    /\ UNCHANGED unitVars

\* the Refresh button, disabled={logsLoading}: fetchLogs()
onRefreshLogs ==
    /\ Quiet
    /\ mounted /\ effectId = scheduleId
    /\ ~logsLoading
    /\ ops < MaxOps
    /\ ops' = ops + 1
    /\ logsLoading' = TRUE
    /\ tasks' = Add(FetchLogsTask(scheduleId))
    /\ UNCHANGED <<settings, schedule, scheduleLoading, logs, lastResult,
                   checkNowLoading, saving, notification, timers, shown, scheduleId, sessionId,
                   activeAgentId, isProcessing, mounted, effectId, localStorage,
                   serviceVars>>
    /\ UNCHANGED unitVars

(***************************************************************************)
(* Toggle schedule.                                                        *)
(***************************************************************************)
\* the two calls the wrong way round
ToggleCallSwapped(sch) == IF sch.is_active THEN "resume" ELSE "pause"

\* schedule.is_active ? pauseSchedule : resumeSchedule
ToggleCall(sch) == IF sch.is_active THEN "pause" ELSE "resume"

\* the button is disabled={scheduleLoading || !schedule}
ToggleDisabled == scheduleLoading \/ schedule = Null

\* setScheduleLoading(true) ahead of the test of schedule
toggleLoadingFirst(sch) == TRUE

\* if (!schedule) return; setScheduleLoading(true)
toggleLoading(sch) == IF sch = Null THEN scheduleLoading ELSE TRUE

\* if (!schedule) return; ...; the first call awaited.  awaited keeps the
\* answers of the calls the task has already awaited
toggleTasks(sch) ==
    IF sch = Null THEN tasks
    ELSE Add([kind |-> "toggle", pc |-> ToggleCall(sch), sid |-> scheduleId,
              is_active |-> sch.is_active, awaited |-> <<>>, res |-> Pending])

\* handleToggleSchedule, up to the first await, called through its button
handleToggleSchedule ==
    /\ Quiet
    /\ mounted /\ effectId = scheduleId
    /\ ~ToggleDisabled
    /\ ops < MaxOps
    /\ ops' = ops + 1
    /\ scheduleLoading' = toggleLoading(schedule)
    /\ tasks' = toggleTasks(schedule)
    /\ UNCHANGED <<settings, schedule, logs, logsLoading, lastResult, checkNowLoading,
                   saving, notification, timers, shown, scheduleId, sessionId, activeAgentId,
                   isProcessing, mounted, effectId, localStorage, serviceVars>>
    /\ UNCHANGED unitVars

\* a throw of the pause/resume call that goes unnoticed
PauseNeverAborts(res) == FALSE

\* does the awaited pause/resume call end the try block (by throwing)?
PauseAborts(res) == res = Throw

\* after await pauseSchedule / resumeSchedule: the answer is not looked at
toggleAfterPause(t) ==
    /\ t.kind = "toggle" /\ t.pc \in {"pause", "resume"} /\ t.res # Pending
    /\ IF PauseAborts(t.res)
       THEN /\ setNotification(Error("Failed to update schedule status"))
            /\ scheduleLoading' = FALSE
            /\ tasks' = Remove(t)
       ELSE /\ tasks' = Replace(t, [t EXCEPT !.pc = "get", !.res = Pending,
                                             !.awaited = <<t.res>>])
            /\ UNCHANGED <<notification, timers, shown, scheduleLoading>>
    /\ UNCHANGED <<settings, schedule, logs, logsLoading, lastResult, checkNowLoading,
                   saving, scheduleId, sessionId, activeAgentId, isProcessing,
                   mounted, effectId, localStorage, serviceVars, ops>>
    /\ UNCHANGED unitVars

ToggleMessage(t) == IF t.is_active THEN "Schedule paused" ELSE "Schedule resumed"

\* after await getSchedule(scheduleId)
toggleAfterGet(t) ==
    /\ t.kind = "toggle" /\ t.pc = "get" /\ t.res # Pending
    /\ IF Throws(t.res)
       THEN /\ setNotification(Error("Failed to update schedule status"))
            /\ UNCHANGED schedule
       ELSE /\ schedule' = IF HasSchedule(t.res) THEN t.res.v.schedule ELSE schedule
            /\ setNotification(Success(ToggleMessage(t)))
    /\ scheduleLoading' = FALSE
    /\ tasks' = Remove(t)
    /\ UNCHANGED <<settings, logs, logsLoading, lastResult, checkNowLoading, saving,
                   scheduleId, sessionId, activeAgentId, isProcessing, mounted,
                   effectId, localStorage, serviceVars, ops>>
    /\ UNCHANGED unitVars

(***************************************************************************)
(* Check now.                                                              *)
(***************************************************************************)
\* the text of a string value
Text(x) == x.s[1]

handleCheckNow ==
    /\ Quiet
    /\ mounted /\ effectId = scheduleId
    /\ ~checkNowLoading
    /\ ops < MaxOps
    /\ ops' = ops + 1
    /\ checkNowLoading' = TRUE
    /\ activeAgentId' = MANAGER_AGENT_ID
    /\ isProcessing' = TRUE
    /\ tasks' = Add([kind |-> "checkNow", pc |-> "agent",
                     message |-> composeAgentMessage(settings),
                     agent_id |-> MANAGER_AGENT_ID, res |-> Pending])
    /\ UNCHANGED <<settings, schedule, scheduleLoading, logs, logsLoading, lastResult,
                   saving, notification, timers, shown, scheduleId, sessionId, mounted, effectId,
                   localStorage, serviceVars>>
    /\ UNCHANGED unitVars

\* result?.response?.result
ResultOf(v) ==
    IF v = Undefined THEN Undefined
    ELSE IF v.response = Undefined THEN Undefined
    ELSE v.response.result

\* what the agent can return as response.result
AgentOutputs ==
    {Str(<<"Result:", "{", "\"summary\"", ":", "\"ok\"", "}">>), Str(<<"done">>),
     Str(<<"0">>)}

\* parseAgentResult over the values result?.response?.result takes here
Parsed == [result \in AgentOutputs \cup {Undefined} |-> parseAgentResult(result)]

\* the notification of a check whose call resolved to v
CheckNotification(v) ==
    IF v # Undefined /\ v.success
    THEN IF ~Falsy(Parsed[ResultOf(v)])
         THEN Success("Gold price check completed successfully")
         ELSE Success("Agent responded. Check results below.")
    ELSE IF v = Undefined \/ v.error \in {Undefined, Null}
         THEN Error("Failed to check gold price")
         ELSE Error(Text(v.error))

\* the lastResult of a check whose call resolved to v
CheckResult(v, previous) ==
    IF v # Undefined /\ v.success /\ ~Falsy(Parsed[ResultOf(v)])
    THEN Parsed[ResultOf(v)]
    ELSE previous

\* the sessionId after result?.session_id was looked at
CheckSession(v, previous) ==
    IF v # Undefined /\ ~Falsy(v.session_id) THEN v.session_id ELSE previous

\* handleCheckNow, after await callAIAgent(message, MANAGER_AGENT_ID)
checkNowAfterAgent(t) ==
    /\ t.kind = "checkNow" /\ t.res # Pending
    /\ IF t.res = Throw
       THEN /\ setNotification(Error("Network error while checking gold price"))
            /\ UNCHANGED <<sessionId, lastResult>>
       ELSE /\ sessionId' = CheckSession(t.res.v, sessionId)
            /\ lastResult' = CheckResult(t.res.v, lastResult)
            /\ setNotification(CheckNotification(t.res.v))
    /\ checkNowLoading' = FALSE
    /\ activeAgentId' = Null
    /\ isProcessing' = FALSE
    /\ tasks' = Remove(t)
    /\ UNCHANGED <<settings, schedule, scheduleLoading, logs, logsLoading, saving,
                   scheduleId, mounted, effectId, localStorage, serviceVars, ops>>
    /\ UNCHANGED unitVars

(***************************************************************************)
(* Save settings.                                                          *)
(***************************************************************************)
\* handleSaveSettings, up to await deleteSchedule(scheduleId)
handleSaveSettings ==
    /\ Quiet
    /\ mounted /\ effectId = scheduleId
    /\ ~saving
    /\ ops < MaxOps
    /\ ops' = ops + 1
    /\ saving' = TRUE
    /\ localStorage' = saveSettings(settings)
    /\ tasks' = Add([kind |-> "save", pc |-> "delete", sid |-> scheduleId,
                     st |-> settings,
                     newCron |-> buildCron(settings.frequency, settings.triggerTime),
                     message |-> composeAgentMessage(settings),
                     req |-> Null, awaited |-> <<>>, res |-> Pending])
    /\ UNCHANGED <<settings, schedule, scheduleLoading, logs, logsLoading, lastResult,
                   checkNowLoading, notification, timers, shown, scheduleId, sessionId, activeAgentId,
                   isProcessing, mounted, effectId, serviceVars>>
    /\ UNCHANGED unitVars

\* the same with the time zone of the settings now on the page
CreateRequestLive(t) ==
    [agent_id |-> MANAGER_AGENT_ID, cron_expression |-> t.newCron,
     message |-> t.message, timezone |-> settings.timezone]

\* the argument of createSchedule; settings is the value the handler's
\* closure holds
CreateRequest(t) ==
    [agent_id |-> MANAGER_AGENT_ID, cron_expression |-> t.newCron,
     message |-> t.message, timezone |-> t.st.timezone]

\* the same without the inner try/catch: a throw of deleteSchedule reaches
\* the outer catch and no schedule is created
saveAfterDeleteUncaught(t) ==
    /\ t.kind = "save" /\ t.pc = "delete" /\ t.res # Pending
    /\ IF t.res = Throw
       THEN /\ setNotification(Error("Error saving configuration"))
            /\ saving' = FALSE
            /\ tasks' = Remove(t)
       ELSE /\ tasks' = Replace(t, [t EXCEPT !.pc = "create", !.res = Pending,
                                             !.awaited = <<t.res>>,
                                             !.req = CreateRequest(t)])
            /\ UNCHANGED <<notification, timers, shown, saving>>
    /\ UNCHANGED <<settings, schedule, scheduleLoading, logs, logsLoading, lastResult,
                   checkNowLoading, scheduleId, sessionId, activeAgentId, isProcessing,
                   mounted, effectId, localStorage, serviceVars, ops>>
    /\ UNCHANGED unitVars

\* after await deleteSchedule(scheduleId), inside its own try/catch: whatever
\* the answer, createSchedule(...) is called
saveAfterDelete(t) ==
    /\ t.kind = "save" /\ t.pc = "delete" /\ t.res # Pending
    /\ tasks' = Replace(t, [t EXCEPT !.pc = "create", !.res = Pending,
                                     !.awaited = <<t.res>>,
                                     !.req = CreateRequest(t)])
    /\ UNCHANGED <<settings, schedule, scheduleLoading, logs, logsLoading, lastResult,
                   checkNowLoading, saving, notification, timers, shown, scheduleId, sessionId,
                   activeAgentId, isProcessing, mounted, effectId, localStorage,
                   serviceVars, ops>>
    /\ UNCHANGED unitVars

\* the same with one message for every failure
SaveNotificationGeneric(res) ==
    IF ~Throws(res) /\ HasSchedule(res)
    THEN Success("Configuration saved and schedule updated")
    ELSE Error("Error saving configuration")

\* the notification of a save whose create call was answered by res
SaveNotification(res) ==
    IF Throws(res) THEN Error("Error saving configuration")
    ELSE IF HasSchedule(res) THEN Success("Configuration saved and schedule updated")
    ELSE IF res.v.error \in {Undefined, Null} THEN Error("Failed to update schedule")
    ELSE Error(Text(res.v.error))

\* createRes.success && createRes.schedule
Created(res) == ~Throws(res) /\ HasSchedule(res)

\* after await createSchedule(...)
saveAfterCreate(t) ==
    /\ t.kind = "save" /\ t.pc = "create" /\ t.res # Pending
    /\ IF Created(t.res)
       THEN /\ scheduleId' = t.res.v.schedule.id
            /\ localStorage' = saveScheduleId(localStorage, t.res.v.schedule.id)
            /\ schedule' = t.res.v.schedule
       ELSE UNCHANGED <<scheduleId, localStorage, schedule>>
    /\ setNotification(SaveNotification(t.res))
    /\ saving' = FALSE
    /\ tasks' = Remove(t)
    /\ UNCHANGED <<settings, scheduleLoading, logs, logsLoading, lastResult,
                   checkNowLoading, sessionId, activeAgentId, isProcessing, mounted,
                   effectId, serviceVars, ops>>
    /\ UNCHANGED unitVars

(***************************************************************************)
(* Settings editor and notification banner.                                *)
(***************************************************************************)
\* onSettingsChange={setSettings}
onSettingsChange(st) ==
    /\ Quiet
    /\ mounted /\ effectId = scheduleId
    /\ st # settings
    /\ ops < MaxOps
    /\ ops' = ops + 1
    /\ settings' = st
    /\ UNCHANGED <<schedule, scheduleLoading, logs, logsLoading, lastResult,
                   checkNowLoading, saving, notification, timers, shown, scheduleId, sessionId,
                   activeAgentId, isProcessing, mounted, effectId, localStorage,
                   tasks, serviceVars>>
    /\ UNCHANGED unitVars

\* onDismissNotification={() => setNotification(null)}
onDismissNotification ==
    /\ Quiet
    /\ notification # Null
    /\ effectId = scheduleId
    /\ setNotification(Null)
    /\ UNCHANGED <<settings, schedule, scheduleLoading, logs, logsLoading, lastResult,
                   checkNowLoading, saving, scheduleId, sessionId, activeAgentId,
                   isProcessing, mounted, effectId, localStorage, tasks, serviceVars, ops>>
    /\ UNCHANGED unitVars

\* the callback of setTimeout(() => setNotification(null), 5000) runs: with
\* no notification on display the state is the same and nothing renders
NotificationTimeout ==
    /\ Quiet
    /\ 0 \in timers
    /\ IF notification # Null
       THEN /\ notification' = Null
            /\ timers' = notificationEffect(timers \ {0}, Null)
            /\ shown' = 0
       ELSE /\ timers' = timers \ {0}
            /\ UNCHANGED <<notification, shown>>
    /\ UNCHANGED <<settings, schedule, scheduleLoading, logs, logsLoading, lastResult,
                   checkNowLoading, saving, scheduleId, sessionId, activeAgentId,
                   isProcessing, mounted, effectId, localStorage, tasks, serviceVars, ops>>
    /\ UNCHANGED unitVars

\* a second passes; a timeout that is due runs first
SecondPasses ==
    /\ Quiet
    /\ timers # {} /\ 0 \notin timers
    /\ timers' = {k - 1 : k \in timers}
    /\ shown' = IF notification # Null THEN shown + 1 ELSE shown
    /\ UNCHANGED <<settings, schedule, scheduleLoading, logs, logsLoading, lastResult,
                   checkNowLoading, saving, notification, scheduleId, sessionId,
                   activeAgentId, isProcessing, mounted, effectId, localStorage, tasks,
                   serviceVars, ops>>
    /\ UNCHANGED unitVars

(***************************************************************************)
(* The remote services, as the client libraries present them: a call       *)
(* resolves to a result object, resolves to undefined (the gateway gave no *)
(* response) or throws.                                                    *)
(***************************************************************************)
ScheduleRecord(id) == [id |-> id, is_active |-> scheduler[id]]

\* {success: false, error?}
Failed(error) ==
    [success |-> FALSE, schedule |-> Null, executions |-> Null, error |-> error]
\* {success: true, schedule?, executions?}
Succeeded(sch, execs) ==
    [success |-> TRUE, schedule |-> sch, executions |-> execs, error |-> Undefined]

ServiceError == Str(<<"service error">>)

\* the answers of a call that did not do what was asked
Failures == {Throw, Value(Undefined), Value(Failed(Undefined))}

\* the call task t awaits returns res
Answer(t, res) == Replace(t, [t EXCEPT !.res = res])

\* getSchedule(id)
getSchedule(t) ==
    /\ t.pc = "get" /\ Quiet
    /\ \E res \in Failures \cup
                  (IF t.sid \in DOMAIN scheduler
                   THEN {Value(Succeeded(ScheduleRecord(t.sid), Null))} ELSE {}) :
           tasks' = Answer(t, res)
    /\ UNCHANGED <<pageVars, localStorage, serviceVars, ops>>
    /\ UNCHANGED unitVars

\* the executions of schedule id, most recent first
Executions(id) == Arr(<<[schedule_id |-> id]>>)

\* getScheduleLogs(id, {limit: 20})
getScheduleLogs(t) ==
    /\ t.pc = "logs" /\ Quiet
    /\ \E res \in Failures \cup
                  (IF t.sid \in DOMAIN scheduler
                   THEN {Value(Succeeded(Null, Executions(t.sid)))} ELSE {}) :
           tasks' = Answer(t, res)
    /\ UNCHANGED <<pageVars, localStorage, serviceVars, ops>>
    /\ UNCHANGED unitVars

\* pauseSchedule(id), resumeSchedule(id)
SetActive(t, active) ==
    /\ Quiet
    /\ \/ /\ t.sid \in DOMAIN scheduler
          /\ scheduler' = [scheduler EXCEPT ![t.sid] = active]
          /\ tasks' = Answer(t, Value(Succeeded(Null, Null)))
       \/ /\ \E res \in Failures : tasks' = Answer(t, res)
          /\ UNCHANGED scheduler
    /\ UNCHANGED <<pageVars, localStorage, nextId, ops>>
    /\ UNCHANGED unitVars

pauseSchedule(t) == t.pc = "pause" /\ SetActive(t, FALSE)
resumeSchedule(t) == t.pc = "resume" /\ SetActive(t, TRUE)

\* deleteSchedule(id)
deleteSchedule(t) ==
    /\ t.pc = "delete" /\ Quiet
    /\ \/ /\ t.sid \in DOMAIN scheduler
          /\ scheduler' = [id \in DOMAIN scheduler \ {t.sid} |-> scheduler[id]]
          /\ tasks' = Answer(t, Value(Succeeded(Null, Null)))
       \/ /\ \E res \in Failures : tasks' = Answer(t, res)
          /\ UNCHANGED scheduler
    /\ UNCHANGED <<pageVars, localStorage, nextId, ops>>
    /\ UNCHANGED unitVars

\* createSchedule({agent_id, cron_expression, message, timezone})
createSchedule(t) ==
    /\ t.pc = "create" /\ Quiet
    /\ \/ /\ scheduler' = [id \in DOMAIN scheduler \cup {nextId} |->
                              IF id = nextId THEN TRUE ELSE scheduler[id]]
          /\ nextId' = nextId + 1
          /\ tasks' = Answer(t, Value(Succeeded([id |-> nextId, is_active |-> TRUE],
                                                Null)))
       \/ /\ \E res \in Failures \cup {Value(Failed(ServiceError)),
                                       Value(Succeeded(Null, Null))} :
                 tasks' = Answer(t, res)
          /\ UNCHANGED serviceVars
    /\ UNCHANGED <<pageVars, localStorage, ops>>
    /\ UNCHANGED unitVars

AgentSession == Str(<<"session-1">>)

AgentAnswers ==
    {Throw, Value(Undefined)}
        \cup {Value([success |-> TRUE, session_id |-> AgentSession,
                     response |-> [result |-> out], error |-> Undefined]) :
                 out \in AgentOutputs}
        \cup {Value([success |-> FALSE, session_id |-> Undefined,
                     response |-> Undefined, error |-> Undefined]),
              Value([success |-> FALSE, session_id |-> AgentSession,
                     response |-> Undefined, error |-> ServiceError])}

\* callAIAgent(message, agentId)
callAIAgent(t) ==
    /\ t.pc = "agent" /\ Quiet
    /\ \E res \in AgentAnswers : tasks' = Answer(t, res)
    /\ UNCHANGED <<pageVars, localStorage, serviceVars, ops>>
    /\ UNCHANGED unitVars

(***************************************************************************)
(* window.location.reload(), which the gateway performs when a call failed *)
(* and the user accepted its prompt: the page starts again; what is stored *)
(* and what the scheduler holds stay.                                      *)
(***************************************************************************)
Reload ==
    /\ Quiet
    /\ \E t \in InFlight : t.res = Pending
    /\ ops < MaxOps
    /\ ops' = ops + 1
    /\ settings' = DEFAULT_SETTINGS
    /\ schedule' = Null
    /\ scheduleLoading' = FALSE
    /\ logs' = <<>>
    /\ logsLoading' = FALSE
    /\ lastResult' = Null
    /\ checkNowLoading' = FALSE
    /\ saving' = FALSE
    /\ notification' = Null
    /\ timers' = {}
    /\ shown' = 0
    /\ scheduleId' = INITIAL_SCHEDULE_ID
    /\ sessionId' = Null
    /\ activeAgentId' = Null
    /\ isProcessing' = FALSE
    /\ mounted' = FALSE
    /\ effectId' = INITIAL_SCHEDULE_ID
    /\ tasks' = EmptyBag
    /\ UNCHANGED <<localStorage, serviceVars>>
    /\ UNCHANGED unitVars

Next ==
    \/ Mount
    \/ FetchEffect
    \/ onRefreshLogs
    \/ handleToggleSchedule
    \/ handleCheckNow
    \/ handleSaveSettings
    \/ \E st \in SettingsValues : onSettingsChange(st)
    \/ onDismissNotification
    \/ NotificationTimeout
    \/ SecondPasses
    \/ \E t \in InFlight : fetchScheduleData(t)
    \/ \E t \in InFlight : fetchLogs(t)
    \/ \E t \in InFlight : toggleAfterPause(t)
    \/ \E t \in InFlight : toggleAfterGet(t)
    \/ \E t \in InFlight : checkNowAfterAgent(t)
    \/ \E t \in InFlight : saveAfterDelete(t)
    \/ \E t \in InFlight : saveAfterCreate(t)
    \/ \E t \in InFlight : getSchedule(t)
    \/ \E t \in InFlight : getScheduleLogs(t)
    \/ \E t \in InFlight : pauseSchedule(t)
    \/ \E t \in InFlight : resumeSchedule(t)
    \/ \E t \in InFlight : deleteSchedule(t)
    \/ \E t \in InFlight : createSchedule(t)
    \/ \E t \in InFlight : callAIAgent(t)
    \/ Reload

Spec == Init /\ [][Next]_vars

\* a call returns, or the continuation of a returned call runs
CallReturns ==
    \E t \in InFlight :
        \/ getSchedule(t) \/ getScheduleLogs(t) \/ pauseSchedule(t)
        \/ resumeSchedule(t) \/ deleteSchedule(t) \/ createSchedule(t)
        \/ callAIAgent(t)
        \/ fetchScheduleData(t) \/ fetchLogs(t) \/ toggleAfterPause(t)
        \/ toggleAfterGet(t) \/ checkNowAfterAgent(t) \/ saveAfterDelete(t)
        \/ saveAfterCreate(t)

\* every outbound call eventually returns a value or throws, and the event
\* loop then runs its continuation
LiveSpec == Spec /\ WF_vars(CallReturns)

\* and React runs the effects that are due after a render: the mount
\* effects, and the fetch effect when its dependencies have changed
EffectsSpec == LiveSpec /\ WF_vars(Mount) /\ WF_vars(FetchEffect)

(***************************************************************************)
(* The gateway: one call of fetchWrapper(...args), from await fetch to its  *)
(* return.  confirm blocks the script until the user has answered.         *)
(***************************************************************************)
\* the requests the client libraries make
Requests == {"/api/scheduler", "/api/agent", "/api/upload"}

\* where a redirect can lead
RedirectTargets == {"/login", "/sso"}

\* response.status
Statuses == {200, 404, 499, 500, 503}

\* what fetch can resolve to for a request: a redirected response carries
\* the URL it was redirected to
Responses(args) ==
    {[status |-> st, redirected |-> FALSE, url |-> args] : st \in Statuses}
        \cup {[status |-> st, redirected |-> TRUE, url |-> u] :
                 st \in Statuses, u \in RedirectTargets}

\* fetch rejected: the request did not reach the server
Rejected == [k |-> "rejected"]

BACKEND_PROMPT ==
    "Backend is not responding.\n\n.Click OK to refresh, if you are seeing this repeatedly ask Architect to fix errors in the app."
CONNECT_PROMPT ==
    "Cannot connect to backend.\n\nClick OK to refresh, if you are seeing this repeatedly ask Architect to fix errors in the app."

\* a server-error test that lets status 500 through
IsServerErrorAbove(status) == status > 500

\* response.status >= 500
IsServerError(status) == status >= 500

\* the two tests in the other order
OutcomeStatusFirst(resp) ==
    IF IsServerError(resp.status) THEN "ServerError"
    ELSE IF resp.redirected THEN "Redirected"
    ELSE "Success"

\* the branch a response takes: response.redirected is tested first
Outcome(resp) ==
    IF resp.redirected THEN "Redirected"
    ELSE IF IsServerError(resp.status) THEN "ServerError"
    ELSE "Success"

\* a reload whatever the user answered
ShouldReloadAlways(shouldRefresh) == TRUE

\* if (shouldRefresh) window.location.reload()
ShouldReload(shouldRefresh) == shouldRefresh

\* confirm(text) is on display
Prompt(text) == [text |-> text, answer |-> Null]

\* fetchWrapper(...args), up to await fetch(...args)
fetchWrapper(args) ==
    /\ fetchState \in {"idle", "returned"}
    /\ fetchState' = "pending"
    /\ fetchArgs' = args
    /\ response' = Null
    /\ prompts' = <<>>
    /\ reloaded' = FALSE
    /\ returned' = Pending
    /\ UNCHANGED <<href, pageVars, localStorage, tasks, serviceVars, ops, helperVars, editorVars>>

\* fetch resolved to resp
fetchResolves(resp) ==
    /\ fetchState = "pending"
    /\ response' = resp
    /\ CASE Outcome(resp) = "Redirected" ->
              /\ href' = resp.url
              /\ returned' = Value(Undefined)
              /\ fetchState' = "returned"
              /\ UNCHANGED prompts
         [] Outcome(resp) = "ServerError" ->
              /\ prompts' = Append(prompts, Prompt(BACKEND_PROMPT))
              /\ fetchState' = "confirm"
              /\ UNCHANGED <<href, returned>>
         [] Outcome(resp) = "Success" ->
              /\ returned' = Value(resp)
              /\ fetchState' = "returned"
              /\ UNCHANGED <<href, prompts>>
    /\ UNCHANGED <<fetchArgs, reloaded, pageVars, localStorage, tasks, serviceVars, ops,
                   helperVars, editorVars>>

\* fetch rejected: the catch block
fetchRejects ==
    /\ fetchState = "pending"
    /\ response' = Rejected
    /\ prompts' = Append(prompts, Prompt(CONNECT_PROMPT))
    /\ fetchState' = "confirm"
    /\ UNCHANGED <<fetchArgs, reloaded, returned, href, pageVars, localStorage, tasks,
                   serviceVars, ops, helperVars, editorVars>>

\* the user answers the prompt; the function then returns
confirm(shouldRefresh) ==
    /\ fetchState = "confirm"
    /\ prompts' = [prompts EXCEPT ![Len(prompts)].answer = Bool(shouldRefresh)]
    /\ reloaded' = ShouldReload(shouldRefresh)
    /\ returned' = Value(Undefined)
    /\ fetchState' = "returned"
    /\ UNCHANGED <<fetchArgs, response, href, pageVars, localStorage, tasks, serviceVars,
                   ops, helperVars, editorVars>>

GatewayNext ==
    \/ \E args \in Requests : fetchWrapper(args)
    \/ \E resp \in Responses(fetchArgs) : fetchResolves(resp)
    \/ fetchRejects
    \/ \E shouldRefresh \in BOOLEAN : confirm(shouldRefresh)

GatewaySpec == Init /\ [][GatewayNext]_vars

(***************************************************************************)
(* The helper functions, each applied once to an argument.                 *)
(***************************************************************************)
\* the longest argument string of parseAgentResult, in tokens, and the
\* longest time string of buildCron, in characters
MaxLen == 3
MaxTimeLen == 5

\* the sequences over S of length at most n
SeqsUpTo(S, n) == UNION {[1..k -> S] : k \in 0..n}

\* an object with an identity
ObjectAt(ref, f) == [t |-> "object", f |-> f, ref |-> ref]

\* longer agent outputs: an object in prose, alone and followed by a second
\* brace-delimited span
SampleTexts ==
    {<<"Result:", " ", "{", "\"summary\"", ":", "\"ok\"", "}", " ", "done">>,
     <<"Result:", " ", "{", "\"summary\"", ":", "\"ok\"", "}", " ", "{", "\"ok\"", ":",
       "42", "}">>,
     <<"Result:", " ", "{", "\"summary\"", ":", "\"ok\"", "}", " ", "{", "done", "}">>}

\* the arguments of parseAgentResult
AgentResultInputs ==
    {Undefined, Null, Num(0), Num(42), Bool(TRUE), Bool(FALSE), Arr(<<>>),
     Arr(<<Num(42)>>)}
        \cup {ObjectAt(ref, f) : ref \in 1..2,
                                 f \in {<<>>, [summary |-> Str(<<"ok">>)]}}
        \cup {Str(s) : s \in SeqsUpTo(Tokens, MaxLen) \cup SampleTexts}

\* the arguments of buildCron
Frequencies == {"hourly", "daily", "weekly", "monthly"}
TimeChars == {"0", "3", "9", ":"}
CronInputs ==
    {[frequency |-> f, time |-> tm] :
        f \in Frequencies, tm \in SeqsUpTo(TimeChars, MaxTimeLen)}

\* the arguments of composeAgentMessage
MaxEmails == 2
Units == {"ounce", "gram"}
SampleEmails == {<<"a", "@", "x">>, <<"b", "@", "y">>}
ComposerInputs ==
    {[DEFAULT_SETTINGS EXCEPT !.recipientEmails = r, !.thresholdEnabled = e,
                              !.thresholdAbove = a, !.thresholdBelow = b,
                              !.unit = u] :
        r \in SeqsUpTo(SampleEmails, MaxEmails), e \in BOOLEAN,
        a \in {"", "2500"}, b \in {"", "2000"}, u \in Units}

\* the schedule on display when handleToggleSchedule is called: none (the
\* first fetch found none) or the initial schedule
DisplayedSchedules == {Null, [id |-> INITIAL_SCHEDULE_ID, is_active |-> TRUE]}

HelperCalls ==
    {[helper |-> "parseAgentResult", input |-> x] : x \in AgentResultInputs}
        \cup {[helper |-> "buildCron", input |-> x] : x \in CronInputs}
        \cup {[helper |-> "composeAgentMessage", input |-> x] : x \in ComposerInputs}
        \cup {[helper |-> "handleToggleSchedule", input |-> x] : x \in DisplayedSchedules}

HelperSpecInit ==
    /\ GatewayInit /\ EditorInit
    /\ \E c \in HelperCalls :
          /\ helper = c.helper /\ input = c.input
          /\ IF c.helper = "handleToggleSchedule"
             THEN PageShowing(c.input, TRUE)
             ELSE PageInit
    /\ output = Pending

callParseAgentResult ==
    /\ helper = "parseAgentResult" /\ output = Pending
    /\ output' = Value(parseAgentResult(input))
    /\ UNCHANGED <<helper, input, pageVars, localStorage, tasks, serviceVars, ops,
                   gatewayVars, editorVars>>

callBuildCron ==
    /\ helper = "buildCron" /\ output = Pending
    /\ output' = Value(Str(buildCron(input.frequency, input.time)))
    /\ UNCHANGED <<helper, input, pageVars, localStorage, tasks, serviceVars, ops,
                   gatewayVars, editorVars>>

callComposeAgentMessage ==
    /\ helper = "composeAgentMessage" /\ output = Pending
    /\ output' = Value(Str(composeAgentMessage(input)))
    /\ UNCHANGED <<helper, input, pageVars, localStorage, tasks, serviceVars, ops,
                   gatewayVars, editorVars>>

\* handleToggleSchedule(), up to its return or its first await
callHandleToggleSchedule ==
    /\ helper = "handleToggleSchedule" /\ output = Pending
    /\ output' = Value(Undefined)
    /\ scheduleLoading' = toggleLoading(schedule)
    /\ tasks' = toggleTasks(schedule)
    /\ UNCHANGED <<helper, input, settings, schedule, logs, logsLoading, lastResult,
                   checkNowLoading, saving, notification, timers, shown, scheduleId,
                   sessionId, activeAgentId, isProcessing, mounted, effectId,
                   localStorage, serviceVars, ops, gatewayVars, editorVars>>

HelperNext ==
    \/ callParseAgentResult
    \/ callBuildCron
    \/ callComposeAgentMessage
    \/ callHandleToggleSchedule

HelperSpec == HelperSpecInit /\ [][HelperNext]_vars

(***************************************************************************)
(* The recipients editor of SettingsTab.  An email is the sequence of its  *)
(* characters.                                                             *)
(***************************************************************************)
\* the longest text typed into the email field, in characters, and the most
\* recipients kept
MaxEmailLen == 2
MaxRecipients == 2

EmailChars == {"a", "@", " "}
EmailInputs == SeqsUpTo(EmailChars, MaxEmailLen)

RECURSIVE trimStart(_)
trimStart(s) == IF s # <<>> /\ Head(s) \in WhiteSpace THEN trimStart(Tail(s)) ELSE s

RECURSIVE trimEnd(_)
trimEnd(s) ==
    IF s # <<>> /\ s[Len(s)] \in WhiteSpace THEN trimEnd(SubSeq(s, 1, Len(s) - 1)) ELSE s

\* emailInput.trim()
trim(s) == trimEnd(trimStart(s))

\* s.includes(x), of a string and of an array
includes(s, x) == \E i \in 1..Len(s) : s[i] = x

\* a second test that always passes
isNew(list, email) == TRUE

\* !settings.recipientEmails.includes(email)
isAbsent(list, email) == ~includes(list, email)

\* onChange={(e) => setEmailInput(e.target.value)}
setEmailInput(text) ==
    /\ text # emailInput
    /\ emailInput' = text
    /\ UNCHANGED <<pageVars, localStorage, tasks, serviceVars, ops, gatewayVars,
                   helperVars>>

addEmail ==
    LET email == trim(emailInput)
    IN  /\ Len(settings.recipientEmails) < MaxRecipients
        /\ IF email = <<>>
           THEN UNCHANGED <<settings, emailInput>>
           ELSE /\ settings' =
                      IF includes(email, "@") /\ isAbsent(settings.recipientEmails, email)
                      THEN [settings EXCEPT
                               !.recipientEmails = Append(settings.recipientEmails, email)]
                      ELSE settings
                /\ emailInput' = <<>>
        /\ UNCHANGED <<schedule, scheduleLoading, logs, logsLoading, lastResult,
                       checkNowLoading, saving, notification, timers, shown,
                       scheduleId, sessionId, activeAgentId, isProcessing, mounted,
                       effectId, localStorage, tasks, serviceVars, ops, gatewayVars,
                       helperVars>>

removeEmail(email) ==
    /\ includes(settings.recipientEmails, email)
    /\ settings' = [settings EXCEPT
                       !.recipientEmails =
                           SelectSeq(settings.recipientEmails, LAMBDA e : e # email)]
    /\ UNCHANGED <<emailInput, schedule, scheduleLoading, logs, logsLoading, lastResult,
                   checkNowLoading, saving, notification, timers, shown,
                   scheduleId, sessionId, activeAgentId, isProcessing, mounted,
                   effectId, localStorage, tasks, serviceVars, ops, gatewayVars,
                   helperVars>>

EditorNext ==
    \/ \E text \in EmailInputs : setEmailInput(text)
    \/ addEmail
    \/ \E email \in EmailInputs : removeEmail(email)

EditorSpec == Init /\ [][EditorNext]_vars



(***************************************************************************)
(* Properties.  A task whose res is not Pending is one whose call has just *)
(* returned: the step that follows is its continuation.                    *)
(***************************************************************************)
\* the answer is a result object {success: true, schedule: {...}}
OkWithSchedule(res) ==
    /\ res.k = "value" /\ res.v # Undefined
    /\ res.v.success /\ res.v.schedule # Null

\* a save whose create call has just returned
SaveReturned(t) == t.kind = "save" /\ t.pc = "create" /\ t.res # Pending

\* C1: whenever the create call of a save returns success with a schedule,
\* the continuation sets the in-memory identifier to the schedule's id,
\* persists the same id, displays the created record and emits the success
\* notification; the new id differs from the one managed before.
C1_SaveSuccess ==
    [][\A t \in InFlight :
          SaveReturned(t) /\ OkWithSchedule(t.res) =>
              /\ scheduleId' = t.res.v.schedule.id
              /\ localStorage'[SCHEDULE_ID_KEY] # NoItem
              /\ localStorage'[SCHEDULE_ID_KEY].id = t.res.v.schedule.id
              /\ schedule' = t.res.v.schedule
              /\ notification' = Success("Configuration saved and schedule updated")
              /\ scheduleId' # scheduleId
              /\ t \notin BagToSet(tasks')]_vars

\* a save has succeeded: both identifiers are the created schedule's
C1_Witness ==
    /\ notification = Success("Configuration saved and schedule updated")
    /\ scheduleId # INITIAL_SCHEDULE_ID
    /\ localStorage[SCHEDULE_ID_KEY] # NoItem
    /\ localStorage[SCHEDULE_ID_KEY].id = scheduleId
    /\ schedule # Null
    /\ schedule.id = scheduleId

\* the answer is a result object that reports a failure, or holds no schedule
ReportsFailure(res) ==
    /\ res.k = "value" /\ res.v # Undefined
    /\ ~(res.v.success /\ res.v.schedule # Null)

\* the answer is a result object {success: true, ...}
OkResult(res) == res.k = "value" /\ res.v # Undefined /\ res.v.success

\* C2: if the create call of a save returns a failure (success false or no
\* schedule), an error notification is emitted (the service's error text,
\* else 'Failed to update schedule') and the managed identifier is unchanged
\* in memory and in storage; when the delete before it succeeded, the
\* identifier then names a schedule that no longer exists.
C2_SaveFailure ==
    [][\A t \in InFlight :
          SaveReturned(t) /\ ReportsFailure(t.res) =>
              /\ notification' =
                     Error(IF t.res.v.error = Undefined THEN "Failed to update schedule"
                           ELSE Text(t.res.v.error))
              /\ scheduleId' = scheduleId
              /\ localStorage'[SCHEDULE_ID_KEY] = localStorage[SCHEDULE_ID_KEY]
              /\ (OkResult(t.awaited[1]) => scheduleId' \notin DOMAIN scheduler')
              /\ t \notin BagToSet(tasks')]_vars

\* a save has failed at create after its delete removed the managed schedule
C2_Witness ==
    /\ notification \in {Error("Failed to update schedule"), Error("service error")}
    /\ scheduleId \notin DOMAIN scheduler
    /\ ~saving

\* C3: in every save the delete of the managed identifier is issued first
\* and awaited; when it returns, whether it succeeded, reported a failure or
\* threw, the create is issued.
C3_SaveOrdering ==
    [][/\ \A u \in BagToSet(tasks') :
              u.kind = "save" /\ ~saving =>
                  u.pc = "delete" /\ u.sid = scheduleId /\ u.res = Pending
       /\ \A u \in BagToSet(tasks') :
              u.kind = "save" /\ u.pc = "create" => Len(u.awaited) = 1
       /\ \A t \in InFlight :
              t.kind = "save" /\ t.pc = "delete" /\ t.res # Pending =>
                  \E u \in BagToSet(tasks') :
                      /\ u.kind = "save" /\ u.pc = "create" /\ u.res = Pending
                      /\ u.awaited = <<t.res>> /\ u.sid = t.sid]_vars

\* the delete of a save threw and its create is in flight
C3_Witness ==
    \E t \in InFlight :
        t.kind = "save" /\ t.pc = "create" /\ t.res = Pending /\ t.awaited = <<Throw>>

\* C4: the settings a save was started with are in storage from its start
\* to its end, whatever the delete and create calls answer; the notification
\* of the save is success exactly when the create call succeeded, and an
\* error otherwise.
C4_SavePersistsSettings ==
    [][/\ \A u \in BagToSet(tasks') :
              u.kind = "save" => localStorage'[STORAGE_KEY] = JSONstringify(u.st)
       /\ \A t \in InFlight :
              SaveReturned(t) =>
                  /\ localStorage'[STORAGE_KEY] = JSONstringify(t.st)
                  /\ notification' # Null
                  /\ notification'.type =
                         IF OkWithSchedule(t.res) THEN "success" ELSE "error"]_vars

\* a save of edited settings has ended in an exception of create, and the
\* edited settings are stored
C4_Witness ==
    /\ notification = Error("Error saving configuration")
    /\ settings \in EditedSettings
    /\ localStorage[STORAGE_KEY] = JSONstringify(settings)

\* the number of copies of task u in bag b
CountOf(b, u) == IF u \in DOMAIN b THEN b[u] ELSE 0

\* C5: with a schedule loaded, a toggle calls pause for the managed
\* identifier if the displayed schedule is active and resume otherwise;
\* when that call returns, a get for the same identifier is issued; the
\* displayed schedule changes only to a record the scheduler returned (from
\* a get or a create), so a failed re-fetch leaves it as it was.
C5_Toggle ==
    [][/\ \A u \in BagToSet(tasks') :
              /\ u.kind = "toggle" /\ u.pc \in {"pause", "resume"} /\ u.res = Pending
              /\ CountOf(tasks', u) > CountOf(tasks, u)
              => /\ schedule # Null
                 /\ u.pc = (IF schedule.is_active THEN "pause" ELSE "resume")
                 /\ u.sid = scheduleId
       /\ \A t \in InFlight :
              t.kind = "toggle" /\ t.pc \in {"pause", "resume"} /\ t.res.k = "value" =>
                  /\ \E u \in BagToSet(tasks') :
                         /\ u.kind = "toggle" /\ u.pc = "get"
                         /\ u.sid = t.sid /\ u.res = Pending
                  /\ schedule' = schedule
       /\ \A t \in InFlight :
              /\ t.kind = "toggle" /\ t.pc = "get" /\ t.res # Pending
              /\ ~OkWithSchedule(t.res)
              => schedule' = schedule
       /\ schedule' # schedule /\ mounted' =>
              \E t \in InFlight :
                  /\ t.pc \in {"get", "create"} /\ OkWithSchedule(t.res)
                  /\ schedule' = t.res.v.schedule]_vars

\* the pause of an active schedule has returned and been applied by the
\* scheduler, the re-fetch is in flight and the display is not flipped
C5_Witness ==
    \E t \in InFlight :
        /\ t.kind = "toggle" /\ t.pc = "get" /\ t.res = Pending /\ t.is_active
        /\ schedule # Null /\ schedule.is_active
        /\ t.sid \in DOMAIN scheduler /\ ~scheduler[t.sid]

\* C6: the notification of a toggle reflects the outcome of its pause or
\* resume call: success only when that call succeeded, error when it failed,
\* by an exception or by a {success: false} result.
C6_ToggleNotification ==
    [][\A t \in InFlight :
          /\ (t.kind = "toggle" /\ t.pc \in {"pause", "resume"} /\ t.res = Throw
                 => notification' # Null /\ notification'.type = "error")
          /\ (t.kind = "toggle" /\ t.pc = "get" /\ t.res # Pending
                 => /\ notification' # Null
                    /\ (notification'.type = "success" => OkResult(t.awaited[1])))]_vars

\* C7: outcome of a check whose agent call returned: (a) success with a
\* non-null normalized result stores it and notifies 'Gold price check
\* completed successfully'; (b) success with a null normalized result
\* notifies 'Agent responded. Check results below.' and keeps lastResult;
\* (c) no success notifies the agent's error text, or 'Failed to check gold
\* price', and keeps lastResult; a session_id that is present is captured.
C7_CheckNowOutcome ==
    [][\A t \in InFlight :
          t.kind = "checkNow" /\ t.res.k = "value" =>
              LET v == t.res.v
                  ok == v # Undefined /\ v.success
                  normalized == parseAgentResult(ResultOf(v))
              IN  /\ ok /\ normalized # Null =>
                         /\ lastResult' = normalized
                         /\ notification' =
                                Success("Gold price check completed successfully")
                  /\ ok /\ normalized = Null =>
                         /\ lastResult' = lastResult
                         /\ notification' =
                                Success("Agent responded. Check results below.")
                  /\ ~ok =>
                         /\ lastResult' = lastResult
                         /\ notification' =
                                Error(IF v = Undefined \/ v.error = Undefined
                                      THEN "Failed to check gold price"
                                      ELSE Text(v.error))
                  /\ sessionId' = IF v # Undefined /\ v.session_id # Undefined
                                  THEN v.session_id ELSE sessionId]_vars

\* an exception is raised in the handler of task t: the awaited call threw,
\* or it resolved to undefined and the handler reads a field of it
Raises(t) ==
    \/ t.res = Throw
    \/ t.res = Value(Undefined) /\ t.pc \in {"get", "logs", "create"}

\* the loading flag of a kind of task
LoadingFlag(kind) ==
    CASE kind \in {"fetchSchedule", "toggle"} -> scheduleLoading
      [] kind = "fetchLogs" -> logsLoading
      [] kind = "checkNow" -> checkNowLoading
      [] kind = "save" -> saving

\* C8 as stated: on every track, an exception raised during the operation
\* is caught and converted into an error notification.
C8_ExceptionsNotified ==
    [][\A t \in InFlight :
          t.res # Pending /\ Raises(t) =>
              notification' # Null /\ notification'.type = "error"]_vars

\* C8 as amended: no exception leaves a handler: the track ends with its
\* flag reset, or, for a throw of a save's delete call, goes on to create.
\* An exception on the toggle, check and save (create) tracks becomes an
\* error notification; an exception of a schedule fetch, of a log fetch or
\* of a save's delete call is swallowed without any notification.
C8_ExceptionsCaught ==
    [][\A t \in InFlight :
          t.res # Pending /\ Raises(t) =>
              IF t.kind = "save" /\ t.pc = "delete"
              THEN /\ notification' = notification
                   /\ saving'
                   /\ \E u \in BagToSet(tasks') : u.kind = "save" /\ u.pc = "create"
              ELSE /\ CountOf(tasks', t) < CountOf(tasks, t)
                   /\ ~LoadingFlag(t.kind)'
                   /\ IF t.kind \in {"fetchSchedule", "fetchLogs"}
                      THEN notification' = notification
                      ELSE notification' # Null /\ notification'.type = "error"]_vars

\* the pause call of a toggle threw: the toggle has ended with an error
\* notification and the schedule button enabled again
C8_Witness ==
    /\ notification = Error("Failed to update schedule status")
    /\ ~scheduleLoading
    /\ \A t \in InFlight : t.kind # "toggle"
    /\ schedule # Null /\ schedule.id \in DOMAIN scheduler
    /\ schedule.is_active = scheduler[schedule.id]

\* C9: while an operation of a track is in flight, the loading flag that
\* disables the track's user action is true.
C9_FlagWhileInFlight == \A t \in InFlight : LoadingFlag(t.kind)

AllIdle == ~scheduleLoading /\ ~logsLoading /\ ~checkNowLoading /\ ~saving

\* C10: provided every call returns, every started operation completes;
\* whenever no operation is in flight all four loading flags are false; and
\* the flag of an operation whose call has not returned is true, so that a
\* call that never returns leaves its flag true forever.
C10_TracksReturnToIdle ==
    /\ (tasks # EmptyBag) ~> (tasks = EmptyBag)
    /\ [](tasks = EmptyBag => AllIdle)
    /\ [](\A t \in InFlight : t.res = Pending => LoadingFlag(t.kind))

\* the call gave no response: it threw, or resolved to undefined
NoResponse(res) == res = Throw \/ res = Value(Undefined)

\* the handler of t goes on to a further call after this answer: a pause or
\* resume that did not throw is followed by the re-fetch, a delete by the
\* create
Continues(t) ==
    \/ t.pc \in {"pause", "resume"} /\ t.res # Throw
    \/ t.pc = "delete"

C12_NotificationLifecycle ==
    /\ [](IF notification = Null
          THEN timers = {} /\ shown = 0
          ELSE timers = {NOTIFICATION_TIMEOUT - shown} /\ shown <= NOTIFICATION_TIMEOUT)
    /\ [][/\ notification' # Null /\ <<notification, shown>>' # <<notification, shown>>
             /\ ~(shown' = shown + 1 /\ notification' = notification)
             => shown' = 0 /\ timers' = {NOTIFICATION_TIMEOUT}
          /\ notification # Null /\ notification' = Null /\ 0 \in timers
             => shown = NOTIFICATION_TIMEOUT
          /\ notification # Null /\ shown = NOTIFICATION_TIMEOUT
             => shown' = shown \/ shown' = 0]_vars

\* a notification that replaced an earlier one two seconds before is on
\* display, with three seconds left
C12_Witness ==
    /\ notification = Success("Gold price check completed successfully")
    /\ shown = 2 /\ timers = {3}
    /\ lastResult # Null /\ schedule # Null /\ ~schedule.is_active
    /\ ops = 2

\* fetch completed with a response that is not redirected and has a status
\* below 500
Completed(resp) ==
    resp # Null /\ resp # Rejected /\ ~resp.redirected /\ resp.status < 500

\* C13: the gateway never throws; it returns the raw response, unchanged,
\* exactly when the request completed, was not redirected and has a status
\* below 500 (4xx included), and then shows no prompt and neither navigates
\* nor reloads; in every other case it returns undefined.
C13_GatewayResult ==
    /\ [](fetchState = "returned" =>
              /\ returned # Throw
              /\ IF Completed(response)
                 THEN /\ returned = Value(response)
                      /\ prompts = <<>> /\ ~reloaded
                 ELSE returned = Value(Undefined))
    /\ [][fetchState = "pending" /\ Completed(response')
              => href' = href /\ fetchState' = "returned"]_vars

\* a 404 has been returned to the caller as it was received
C13_Witness ==
    /\ fetchState = "returned"
    /\ response = [status |-> 404, redirected |-> FALSE, url |-> fetchArgs]
    /\ returned = Value(response)

\* the call ran into a server error or a network error
ServerError(resp) == resp # Null /\ resp # Rejected /\ ~resp.redirected /\ resp.status >= 500
NetworkError(resp) == resp = Rejected

\* C14: for a server error and for a network error the user is prompted
\* exactly once before the gateway returns, with a text that differs between
\* the two; the page is reloaded if and only if the user accepted, so never
\* without an accepted prompt before it; on decline nothing happens but the
\* return of undefined.
C14_RecoveryPrompt ==
    /\ BACKEND_PROMPT # CONNECT_PROMPT
    /\ [](fetchState \in {"confirm", "returned"}
              /\ (ServerError(response) \/ NetworkError(response)) =>
              /\ Len(prompts) = 1
              /\ prompts[1].text = (IF ServerError(response) THEN BACKEND_PROMPT
                                    ELSE CONNECT_PROMPT)
              /\ fetchState = "confirm" => prompts[1].answer = Null /\ ~reloaded
              /\ fetchState = "returned" =>
                     /\ prompts[1].answer \in {Bool(TRUE), Bool(FALSE)}
                     /\ returned = Value(Undefined))
    /\ [](reloaded <=> /\ fetchState = "returned" /\ prompts # <<>>
                       /\ prompts[1].answer = Bool(TRUE))
    /\ [][fetchState = "confirm" => href' = href /\ response' = response]_vars

\* the user declined the prompt of a server error
C14_Witness ==
    /\ fetchState = "returned" /\ ServerError(response)
    /\ prompts = <<[text |-> BACKEND_PROMPT, answer |-> Bool(FALSE)]>>
    /\ ~reloaded /\ returned = Value(Undefined)

\* C15: whenever the response is flagged as redirected, whatever its status,
\* the gateway navigates to the response's URL, shows no prompt, does not
\* reload and returns undefined: the redirect test comes before the
\* server-error test.
C15_Redirect ==
    [](fetchState # "pending" /\ response # Null /\ response # Rejected
          /\ response.redirected =>
          /\ fetchState = "returned"
          /\ href = response.url
          /\ prompts = <<>> /\ ~reloaded
          /\ returned = Value(Undefined))

\* a redirected response with status 503 has led to the login page
C15_Witness ==
    /\ fetchState = "returned"
    /\ response = [status |-> 503, redirected |-> TRUE, url |-> "/login"]
    /\ href = "/login" /\ prompts = <<>> /\ ~reloaded

\* the position of the "}" that closes the brace opened before position i,
\* depth braces being open; 0 if there is none
RECURSIVE MatchClose(_, _, _)
MatchClose(toks, i, depth) ==
    IF i > Len(toks) THEN 0
    ELSE IF toks[i] = "{" THEN MatchClose(toks, i + 1, depth + 1)
    ELSE IF toks[i] = "}" THEN
        IF depth = 1 THEN i ELSE MatchClose(toks, i + 1, depth - 1)
    ELSE MatchClose(toks, i + 1, depth)

\* the first balanced {...} span of a text; <<>> if there is none
FirstBalanced(toks) ==
    LET opens == {i \in 1..Len(toks) : toks[i] = "{"}
        first == CHOOSE i \in opens : \A j \in opens : i <= j
    IN  IF opens = {} THEN <<>>
        ELSE IF MatchClose(toks, first + 1, 1) = 0 THEN <<>>
        ELSE SubSeq(toks, first, MatchClose(toks, first + 1, 1))

\* parseAgentResult has been applied to the argument
Normalized == helper = "parseAgentResult" /\ output # Pending

\* C16: for a string that is not valid JSON itself and whose first balanced
\* {...} span is a valid JSON object, parseAgentResult returns the parsed
\* value of that span, also when another brace-delimited span follows it.
C16_EmbeddedJson ==
    Normalized /\ input.t = "string" =>
        (~JSONparse(input.s).ok /\ JSONparse(FirstBalanced(input.s)).ok
            => output = Value(JSONparse(FirstBalanced(input.s)).v))

\* C17: for every input parseAgentResult returns without throwing, and
\* returns null or an object, never a number, a string or a boolean.
C17_ResultType ==
    Normalized => output # Throw /\ output.v.t \in {"null", "object"}

\* no span of the text from a "{" to a later "}" is valid JSON
NoParseableSpan(toks) ==
    \A i, j \in 1..Len(toks) :
        toks[i] = "{" /\ toks[j] = "}" /\ i < j => ~JSONparse(SubSeq(toks, i, j)).ok

\* C18: for an object input the result is the input itself; for null,
\* undefined, a number or a boolean, and for a string that is neither valid
\* JSON nor holds a parseable {...} span, the result is null.
C18_Passthrough ==
    Normalized =>
        /\ input.t = "object" => output = Value(input)
        /\ input.t \in {"null", "undefined", "number", "boolean"} => output = Value(Null)
        /\ input.t = "string" =>
               (~JSONparse(input.s).ok /\ NoParseableSpan(input.s)
                   => output = Value(Null))

\* an object has come back as it went in
C18_Witness ==
    /\ Normalized
    /\ input = ObjectAt(2, [summary |-> Str(<<"ok">>)])
    /\ output = Value(input)

\* buildCron has been applied to the argument
CronBuilt == helper = "buildCron" /\ output # Pending

Digits == {"0", "1", "2", "3", "4", "5", "6", "7", "8", "9"}

\* a time HH:MM
WellFormed(time) ==
    /\ Len(time) = 5 /\ time[3] = ":"
    /\ \A i \in {1, 2, 4, 5} : time[i] \in Digits

\* the decimal numeral of the number a digit string denotes
RECURSIVE Numeral(_)
Numeral(ds) == IF Len(ds) > 1 /\ ds[1] = "0" THEN Numeral(Tail(ds)) ELSE ds

\* the cron expression with minute field m and hour field h
CronOf(frequency, m, h) ==
    CASE frequency = "hourly" -> m \o <<" ", "*", " ", "*", " ", "*", " ", "*">>
      [] frequency = "weekly" -> m \o <<" ">> \o h \o <<" ", "*", " ", "*", " ", "1">>
      [] OTHER -> m \o <<" ">> \o h \o <<" ", "*", " ", "*", " ", "*">>

\* C19: for a time HH:MM the minute and hour fields are the numeric minute
\* and hour ('09:30' gives '30 * * * *' hourly, '30 9 * * *' daily and
\* '30 9 * * 1' weekly); hourly ignores the hour, weekly fires on day 1 and
\* an unknown frequency gives the daily expression.
C19_CronOfTime ==
    CronBuilt /\ WellFormed(input.time) =>
        output = Value(Str(CronOf(input.frequency,
                                  Numeral(SubSeq(input.time, 4, 5)),
                                  Numeral(SubSeq(input.time, 1, 2)))))

\* C20: a time string that lacks the hour or the minute gets hour 9 and
\* minute 0, so that '' gives '0 9 * * *' daily; for every time string the
\* result has 5 fields, none of them empty.
C20_CronDefaults ==
    CronBuilt =>
        LET parts == Split(input.time, ":")
            h == IF parts[1] = <<>> THEN <<"9">> ELSE parts[1]
            m == IF Len(parts) < 2 \/ parts[2] = <<>> THEN <<"0">> ELSE parts[2]
            fields == Split(output.v.s, " ")
        IN  /\ Len(parts) < 2 \/ <<>> \in {parts[1], parts[2]} =>
                   output = Value(Str(CronOf(input.frequency, m, h)))
            /\ Len(fields) = 5
            /\ \A i \in 1..Len(fields) : fields[i] # <<>>

Composed == helper = "composeAgentMessage" /\ output # Pending

\* the pieces of a message strictly between the piece a and the piece b
Between(msg, a, b) ==
    LET i == CHOOSE k \in 1..Len(msg) : msg[k] = a
        j == CHOOSE k \in 1..Len(msg) : msg[k] = b
    IN  SubSeq(msg, i + 1, j - 1)

ThresholdOf(msg) == Between(msg, "\nThreshold: ", "\nUnit preference: ")

Bound(word, value, st) ==
    <<word, value, "/", IF st.unit = "gram" THEN "g" ELSE "oz">>

\* C21: the threshold line of the composed message is 'No threshold
\* configured' when the threshold is disabled or both bounds are empty;
\* otherwise it is 'Alert when price goes ' followed by 'above $<above>/<u>'
\* and/or 'below $<below>/<u>' for exactly the non-empty bounds, joined with
\* ' or ' when both are present, <u> being 'g' for gram and 'oz' otherwise.
C21_ThresholdClause ==
    Composed =>
        LET a == input.thresholdAbove
            b == input.thresholdBelow
            line == ThresholdOf(output.v.s)
        IN  IF ~input.thresholdEnabled \/ (a = "" /\ b = "")
            THEN line = <<"No threshold configured">>
            ELSE line = <<"Alert when price goes ">>
                            \o (IF a # "" THEN Bound("above $", a, input) ELSE <<>>)
                            \o (IF a # "" /\ b # "" THEN <<" or ">> ELSE <<>>)
                            \o (IF b # "" THEN Bound("below $", b, input) ELSE <<>>)

\* enabled, above '2500' only, unit ounce: the line ends 'above $2500/oz'
C21_Witness ==
    /\ Composed
    /\ input.thresholdEnabled /\ input.thresholdAbove = "2500"
    /\ input.thresholdBelow = "" /\ input.unit = "ounce"
    /\ ThresholdOf(output.v.s) = <<"Alert when price goes ", "above $", "2500", "/", "oz">>

RecipientsOf(msg) ==
    Between(msg, "Fetch current gold prices and send an alert email.\nRecipients: ",
            "\nThreshold: ")

\* the emails in their order, ', ' between two of them
RECURSIVE Listed(_)
Listed(es) ==
    IF es = <<>> THEN <<>>
    ELSE IF Len(es) = 1 THEN Head(es)
    ELSE Head(es) \o <<", ">> \o Listed(Tail(es))

\* the calls that a step of check-now or save starts or goes on to
Started(kind, pc) ==
    {t \in BagToSet(tasks') :
        /\ t.kind = kind /\ t.pc = pc /\ t.res = Pending
        /\ CountOf(tasks', t) > CountOf(tasks, t)}

\* C22: the message of a check-now or a save lists the configured emails
\* joined with ', ' in their stored order, or 'no recipients configured' when
\* there are none; with no recipients the agent call and the create call are
\* still issued; and the message of a check-now is determined by the settings
\* alone, so two check-nows with the same settings send the same message.
C22_Recipients ==
    [][/\ \A t \in Started("checkNow", "agent") :
            /\ RecipientsOf(t.message) =
                  IF settings.recipientEmails = <<>> THEN <<"no recipients configured">>
                  ELSE Listed(settings.recipientEmails)
            /\ t.message = composeAgentMessage(settings)
       /\ \A t \in Started("save", "delete") \cup Started("save", "create") :
            RecipientsOf(t.message) =
                  IF t.st.recipientEmails = <<>> THEN <<"no recipients configured">>
                  ELSE Listed(t.st.recipientEmails)
       /\ \A t \in InFlight :
            /\ t.kind = "save" /\ t.pc = "delete" /\ t.res # Pending
            /\ t.st.recipientEmails = <<>>
            /\ CountOf(tasks', t) < CountOf(tasks, t)
            => Started("save", "create") # {}
       /\ /\ Quiet /\ mounted /\ effectId = scheduleId /\ ops < MaxOps
          /\ settings.recipientEmails = <<>>
          => /\ ~checkNowLoading => ENABLED handleCheckNow
             /\ ~saving => ENABLED handleSaveSettings
      ]_vars

\* a check-now and a save, both with no recipient and both with two, have
\* issued their calls
C22_Witness ==
    /\ \E t \in InFlight :
          /\ t.kind = "checkNow" /\ t.pc = "agent"
          /\ RecipientsOf(t.message) = <<"no recipients configured">>
    /\ \E t \in InFlight :
          /\ t.kind = "save" /\ t.pc = "create" /\ t.res # Pending
          /\ RecipientsOf(t.message) = <<"no recipients configured">>

Blank(s) == \A i \in 1..Len(s) : s[i] = " "
Trimmed(s) == s # <<>> /\ s[1] # " " /\ s[Len(s)] # " "
IndexOf(list, e) == CHOOSE i \in 1..Len(list) : list[i] = e
Entries(list) == {list[i] : i \in 1..Len(list)}

\* the email field holds x with white space around it
Typed(x) ==
    \E a, b \in 0..Len(emailInput) :
        emailInput = [i \in 1..a |-> " "] \o x \o [i \in 1..b |-> " "]

\* C23: from the default settings, after any sequence of addEmail and
\* removeEmail the recipient list has no duplicate and no empty string, and
\* every entry is a trimmed string containing '@'; the entries stay in the
\* order they were added in (an added email goes to the end, the others keep
\* their order); adding a blank email or one already present leaves the list
\* unchanged.
C23_RecipientSet ==
    /\ [](LET list == settings.recipientEmails
          IN  /\ \A i, j \in 1..Len(list) : list[i] = list[j] => i = j
              /\ \A i \in 1..Len(list) :
                    /\ Trimmed(list[i])
                    /\ \E k \in 1..Len(list[i]) : list[i][k] = "@")
    /\ [][LET list == settings.recipientEmails
              after == settings'.recipientEmails
          IN  /\ \A x, y \in Entries(list) \cap Entries(after) :
                    IndexOf(list, x) < IndexOf(list, y)
                        => IndexOf(after, x) < IndexOf(after, y)
              /\ \A x \in Entries(after) \ Entries(list) :
                    /\ after = Append(list, x)
                    /\ Typed(x)
              /\ /\ Len(after) >= Len(list)
                 /\ Blank(emailInput) \/ \E x \in Entries(list) : Typed(x)
                 => after = list
         ]_vars

\* two emails were added, the second typed with a space after it, and an
\* email already present is in the field
C23_Witness ==
    /\ settings.recipientEmails = << <<"a", "@">>, <<"@">> >>
    /\ emailInput = <<"@", " ">>

\* the step is the continuation of a save whose create succeeded
CreateSucceeded ==
    \E t \in InFlight :
        /\ SaveReturned(t) /\ OkWithSchedule(t.res)
        /\ CountOf(tasks', t) < CountOf(tasks, t)

\* the step is the startup of the page: it restarts, or its mount effect runs
Startup == ~mounted' \/ (~mounted /\ mounted')

\* C24: the managed schedule identifier, in memory and persisted, is changed
\* only by the startup load and by a save whose create succeeded, and the
\* persisted settings are changed only by the start of a save; every other
\* step (toggle, check-now, the fetches, dismissing the notification, editing
\* the settings) leaves the three unchanged.
C24_SingleWriter ==
    [][/\ scheduleId' # scheduleId => Startup \/ CreateSucceeded
       /\ localStorage'[SCHEDULE_ID_KEY] # localStorage[SCHEDULE_ID_KEY] => CreateSucceeded
       /\ localStorage'[STORAGE_KEY] # localStorage[STORAGE_KEY]
            => Started("save", "delete") # {}
      ]_vars

\* a save has stored a new identifier and new settings, and a toggle, a
\* check-now or an edit has followed it
C24_Witness ==
    /\ localStorage[SCHEDULE_ID_KEY] # NoItem
    /\ localStorage[STORAGE_KEY] # NoItem
    /\ scheduleId # INITIAL_SCHEDULE_ID
    /\ ops = MaxOps
    /\ \/ \E t \in InFlight : t.kind \in {"toggle", "checkNow"}
       \/ localStorage[STORAGE_KEY] # JSONstringify(settings)

ToggleCalled == helper = "handleToggleSchedule" /\ output # Pending

\* C25: called when no schedule is displayed, handleToggleSchedule issues no
\* pause, resume or get call, emits no notification and changes no state: the
\* loading flag, like everything else, is what it was before the call.
C25_ToggleWithoutSchedule ==
    ToggleCalled /\ input = Null =>
        /\ tasks = EmptyBag
        /\ notification = Null /\ timers = {}
        /\ ~scheduleLoading
        /\ schedule = Null
        /\ PageShowing(Null, TRUE)

\* the handler was called with no schedule on display and has returned
C25_Witness == ToggleCalled /\ input = Null /\ schedule = Null /\ mounted

\* a call that writes the displayed schedule has returned to t: the get of a
\* fetch or of a toggle, or the create of a save
ScheduleWriter(t) ==
    /\ t.res # Pending
    /\ \/ t.kind = "fetchSchedule"
       \/ t.kind = "toggle" /\ t.pc = "get"
       \/ t.kind = "save" /\ t.pc = "create"

LogsWriter(t) == t.res # Pending /\ t.kind = "fetchLogs"

OkWithExecutions(res) ==
    /\ res.k = "value" /\ res.v # Undefined
    /\ res.v.success /\ "a" \in DOMAIN res.v.executions

\* the step completes t
Completes(t) == CountOf(tasks', t) < CountOf(tasks, t)

\* C26: when operations that write the displayed schedule overlap, each
\* successful response, at the moment its operation completes, replaces the
\* displayed schedule by the record it delivered, whichever operation was
\* started first, and nothing else changes the displayed schedule while the
\* page lives: after both have completed the displayed schedule is the record
\* of the later-completing successful response.  The same holds for the log
\* fetches and the displayed logs.
C26_LastResponseWins ==
    [][/\ \A t \in InFlight :
            ScheduleWriter(t) /\ Completes(t) /\ OkWithSchedule(t.res)
                => schedule' = t.res.v.schedule
       /\ schedule' # schedule =>
            \/ ~mounted'
            \/ \E t \in InFlight :
                  ScheduleWriter(t) /\ Completes(t) /\ OkWithSchedule(t.res)
       /\ \A t \in InFlight :
            LogsWriter(t) /\ Completes(t) /\ OkWithExecutions(t.res)
                => logs' = t.res.v.executions.a
       /\ logs' # logs =>
            \/ ~mounted'
            \/ \E t \in InFlight :
                  LogsWriter(t) /\ Completes(t) /\ OkWithExecutions(t.res)
      ]_vars

\* a fetch started before a save completed returns after it, with a record
\* other than the one the save displayed
C26_Witness ==
    /\ schedule # Null /\ schedule.id = scheduleId
    /\ \E t \in InFlight :
          /\ t.kind = "fetchSchedule" /\ OkWithSchedule(t.res)
          /\ t.sid # scheduleId
          /\ t.res.v.schedule # schedule

\* no handler is in flight and no effect is due
Settled == mounted /\ tasks = EmptyBag /\ effectId = scheduleId

\* C27: in every state in which no operation is in flight and a schedule is
\* displayed, the displayed schedule's id is the in-memory managed schedule
\* identifier.
C27_DisplayedIsManaged ==
    Settled /\ schedule # Null => schedule.id = scheduleId

\* the schedules that exist at the scheduler
Live == DOMAIN scheduler

\* C28: in every state at most one schedule created or managed by this
\* installation is live at the scheduler: once a save's create has succeeded,
\* the schedule managed before it no longer exists.
C28_OneLiveSchedule == Cardinality(Live) <= 1

\* the settings in storage
Persisted == localStorage[STORAGE_KEY].text

\* C29: within a save, the settings written to storage and the cron
\* expression, message and time zone sent to create all come from the
\* settings the page held when the save started, also when the settings are
\* edited while the delete call is in flight: the edit is neither stored nor
\* sent by that save.
C29_SaveSnapshot ==
    \A t \in InFlight :
        t.kind = "save" =>
            /\ localStorage[STORAGE_KEY] # NoItem
            /\ t.st = Persisted
            /\ t.pc = "create" =>
                 /\ t.req.cron_expression =
                        buildCron(Persisted.frequency, Persisted.triggerTime)
                 /\ t.req.message = composeAgentMessage(Persisted)
                 /\ t.req.timezone = Persisted.timezone
                 /\ t.req.agent_id = MANAGER_AGENT_ID

\* the settings were edited while the delete call was in flight, and create
\* has been called
C29_Witness ==
    \E t \in InFlight :
        /\ t.kind = "save" /\ t.pc = "create"
        /\ settings # t.st
        /\ settings.timezone # t.req.timezone

\* the managed identifier is not the one the fetch effect last ran for
Due == mounted /\ effectId # scheduleId

\* a get and a listExecutions with limit 20 for the managed identifier have
\* just been issued
Issued ==
    /\ \E t \in InFlight :
          t.kind = "fetchSchedule" /\ t.pc = "get" /\ t.sid = scheduleId /\ t.res = Pending
    /\ \E t \in InFlight :
          /\ t.kind = "fetchLogs" /\ t.pc = "logs" /\ t.sid = scheduleId
          /\ t.limit = 20 /\ t.res = Pending

\* C30: whenever the in-memory managed identifier changes (the stored
\* identifier is loaded at startup, or a save adopts a new one), a get and a
\* listExecutions with limit 20 for the new identifier are subsequently
\* issued; a fetch that fails or is unsuccessful leaves the displayed schedule
\* or logs as they were, and no fetch emits a notification.
C30_Refetch ==
    /\ [][scheduleId' # scheduleId /\ mounted' => mounted' /\ effectId' # scheduleId']_vars
    /\ Due ~> Issued
    /\ [][\A t \in InFlight :
             /\ t.kind = "fetchSchedule" /\ t.res # Pending /\ Completes(t)
                  => /\ notification' = notification
                     /\ ~OkWithSchedule(t.res) => schedule' = schedule
             /\ LogsWriter(t) /\ Completes(t)
                  => /\ notification' = notification
                     /\ ~OkWithExecutions(t.res) => logs' = logs
         ]_vars

\* a save has adopted a new identifier and the fetches for it are in flight,
\* with a schedule on display
C30_Witness ==
    /\ scheduleId # INITIAL_SCHEDULE_ID
    /\ schedule # Null
    /\ Issued
====
